---- MODULE Spec2Model ----
(***************************************************************************)
(* Record extractors of google_takeout_parser (parse_json.py) and the      *)
(* typed event model they target (models.py).                              *)
(*                                                                         *)
(* Every extractor is a Python generator: it decodes one JSON document,    *)
(* checks the top-level envelope, then loops over the records and yields   *)
(* one outcome (an event or a caught exception) after the other.  The      *)
(* model keeps the decoded document, the position of the generator, the    *)
(* outcomes yielded so far and the exception, if any, that left the        *)
(* generator.                                                              *)
(***************************************************************************)
EXTENDS Integers, Sequences, FiniteSets, TLC

(***************************************************************************)
(* Bounds of the model.                                                    *)
(***************************************************************************)
\* largest number of records (list entries, characters, keys) in a document
MaxRecords == 2

(***************************************************************************)
(* Decoded JSON values.  Every value carries its Python type in t.         *)
(***************************************************************************)
JNull == [t |-> "null"]
JNum(n) == [t |-> "num", n |-> n]
JStr(s) == [t |-> "str", s |-> s]
JList(l) == [t |-> "list", l |-> l]
JObj(o) == [t |-> "obj", o |-> o]
\* a Python float, kept exact as the fraction num / den
JFloat(n, d) == [t |-> "float", num |-> n, den |-> d]

EmptyObj == JObj(<<>>)
EmptyList == JList(<<>>)

\* the keys of an object in one fixed order
RECURSIVE SetToSeq(_)
SetToSeq(S) ==
    IF S = {} THEN <<>>
    ELSE LET x == CHOOSE y \in S : TRUE IN <<x>> \o SetToSeq(S \ {x})

\* the characters of the strings that the model iterates over
StrChars == [s \in {"ab"} |-> <<"a", "b">>] @@ [s \in {""} |-> <<>>]

Chars(s) == IF s \in DOMAIN StrChars THEN StrChars[s] ELSE <<s>>

\* Python's substring test `sub in s` on the strings of the model
Substr(sub, s) == sub = s

(***************************************************************************)
(* Python evaluation: a computation either returns a value or raises.      *)
(***************************************************************************)
Ok(v) == [ok |-> TRUE, v |-> v]
Raise(e) == [ok |-> FALSE, exc |-> e]

\* an exception: its class, its message template, the names the message
\* carries (a missing key, the keys of an object) and the record it quotes
Exc(type, what, arg, rec) == [type |-> type, what |-> what, arg |-> arg, rec |-> rec]

KeyError(k) == Exc("KeyError", "", {k}, JNull)
TypeError(what) == Exc("TypeError", what, {}, JNull)
AttributeError(what) == Exc("AttributeError", what, {}, JNull)
ValueError(what) == Exc("ValueError", what, {}, JNull)
RuntimeError(what, arg, rec) == Exc("RuntimeError", what, arg, rec)
UnboundLocalError(name) == Exc("UnboundLocalError", "", {name}, JNull)

Bind(r, F(_)) == IF r.ok THEN F(r.v) ELSE r

\* the first exception raised by a sequence of computations evaluated in order
FirstFailure(rs) ==
    LET bad == {j \in 1..Len(rs) : ~rs[j].ok}
    IN  IF bad = {} THEN 0 ELSE CHOOSE j \in bad : \A k \in bad : j <= k

AllOk(rs) == FirstFailure(rs) = 0

Failure(rs) == rs[FirstFailure(rs)]

\* isinstance(v, list), isinstance(v, dict)
IsList(v) == v.t = "list"
IsDict(v) == v.t = "obj"

\* d[k] with a string key k
Index(d, k) ==
    CASE d.t = "obj" -> IF k \in DOMAIN d.o THEN Ok(d.o[k]) ELSE Raise(KeyError(k))
      [] d.t = "list" -> Raise(TypeError("list indices must be integers"))
      [] d.t = "str" -> Raise(TypeError("string indices must be integers"))
      [] OTHER -> Raise(TypeError("not subscriptable"))

\* d.get(k, default)
GetDefault(d, k, default) ==
    IF d.t = "obj"
    THEN Ok(IF k \in DOMAIN d.o THEN d.o[k] ELSE default)
    ELSE Raise(AttributeError("no attribute 'get'"))

\* d.get(k)
Get(d, k) == GetDefault(d, k, JNull)

\* k in d with a string k
In(k, d) ==
    CASE d.t = "obj" -> Ok(k \in DOMAIN d.o)
      [] d.t = "list" -> Ok(\E j \in 1..Len(d.l) : d.l[j] = JStr(k))
      [] d.t = "str" -> Ok(Substr(k, d.s))
      [] OTHER -> Raise(TypeError("argument is not iterable"))

\* the elements that `for x in v` visits
Iter(v) ==
    CASE v.t = "list" -> Ok(v.l)
      [] v.t = "str" -> Ok([j \in 1..Len(Chars(v.s)) |-> JStr(Chars(v.s)[j])])
      [] v.t = "obj" -> Ok([j \in 1..Cardinality(DOMAIN v.o) |-> JStr(SetToSeq(DOMAIN v.o)[j])])
      [] OTHER -> Raise(TypeError("object is not iterable"))

\* bool(v)
Truthy(v) ==
    CASE v.t = "null" -> FALSE
      [] v.t = "num" -> v.n # 0
      [] v.t = "str" -> v.s # ""
      [] v.t = "list" -> Len(v.l) > 0
      [] v.t = "obj" -> DOMAIN v.o # {}
      [] OTHER -> TRUE

(***************************************************************************)
(* Scalar decoders.  A datetime is the number of microseconds since        *)
(* 1970-01-01T00:00:00Z.                                                   *)
(***************************************************************************)
E7 == 10000000

\* the ISO-8601 strings of the model and the instants they denote
IsoTable ==
    [s \in {"1970-01-01T00:00:01Z"} |-> 1000000] @@
    [s \in {"1970-01-01T00:00:01.500Z"} |-> 1500000] @@
    [s \in {"1970-01-01T00:00:02Z"} |-> 2000000] @@
    [s \in {"1970-01-01T00:00:00.500Z"} |-> 500000] @@
    [s \in {"1969-12-31T23:59:59.500Z"} |-> 0 - 500000]

\* the numeric strings of the model and int() of them
NumStrTable ==
    [s \in {"3000"} |-> 3000] @@
    [s \in {"1500"} |-> 1500]

\* parse_json_utc_date
parse_json_utc_date(v) ==
    IF v.t # "str" THEN Raise(TypeError("expected an ISO-8601 string"))
    ELSE IF v.s \in DOMAIN IsoTable THEN Ok(IsoTable[v.s])
    ELSE Raise(ValueError("not an ISO-8601 date"))

\* parse_datetime_millis: epoch milliseconds, a number or a numeric string
parse_datetime_millis(v) ==
    CASE v.t = "num" -> Ok(v.n * 1000)
      [] v.t = "str" -> IF v.s \in DOMAIN NumStrTable THEN Ok(NumStrTable[v.s] * 1000)
                        ELSE Raise(ValueError("invalid literal for int()"))
      [] OTHER -> Raise(TypeError("int() argument must be a string or a number"))

\* convert_to_https_opt
HttpsTable == [s \in {"http://a.example/x"} |-> "https://a.example/x"]

convert_to_https_opt(v) ==
    IF v.t = "str" /\ v.s \in DOMAIN HttpsTable THEN JStr(HttpsTable[v.s]) ELSE v

\* float(x)
ToFloat(v) ==
    CASE v.t = "num" -> Ok(JFloat(v.n, 1))
      [] v.t = "float" -> Ok(v)
      [] v.t = "str" -> IF v.s \in DOMAIN NumStrTable THEN Ok(JFloat(NumStrTable[v.s], 1))
                        ELSE Raise(ValueError("could not convert string to float"))
      [] OTHER -> Raise(TypeError("float() argument must be a string or a number"))

\* x / 1e7
DivE7(v) ==
    CASE v.t = "num" -> Ok(JFloat(v.n, E7))
      [] v.t = "float" -> Ok(JFloat(v.num, v.den * E7))
      [] OTHER -> Raise(TypeError("unsupported operand type(s) for /"))

\* int(dt.timestamp()): int() truncates toward zero
EpochSecond(dt) == IF dt >= 0 THEN dt \div 1000000 ELSE 0 - ((0 - dt) \div 1000000)

\* a plausible slip: the ISO field is preferred when it is present
_parse_timestamp_key_IsoFirst(d, key, keyMs) ==
    Bind(In(key, d), LAMBDA present :
        IF present
        THEN Bind(Index(d, key), LAMBDA iso : parse_json_utc_date(iso))
        ELSE Bind(Index(d, keyMs), LAMBDA ms : parse_datetime_millis(ms)))

\* _parse_timestamp_key: keyMs is key followed by "Ms"
_parse_timestamp_key(d, key, keyMs) ==
    Bind(In(keyMs, d), LAMBDA present :
        IF present
        THEN Bind(Index(d, keyMs), LAMBDA ms : parse_datetime_millis(ms))
        ELSE Bind(Index(d, key), LAMBDA iso : parse_json_utc_date(iso)))

(***************************************************************************)
(* Record builders of the list-shaped documents.  Each returns the event   *)
(* or the first exception that building it raises, in the order Python     *)
(* evaluates the expressions.                                              *)
(***************************************************************************)
\* a plausible slip: the name of every subtitle entry is read, so an entry
\* without one makes the record fail
ActivitySubtitles_Strict(blob) ==
    Bind(GetDefault(blob, "subtitles", EmptyList), LAMBDA subs :
    Bind(Iter(subs), LAMBDA ss :
        LET names == [j \in 1..Len(ss) |-> Index(ss[j], "name")]
        IN  IF ~AllOk(names) THEN Failure(names)
            ELSE Ok([j \in 1..Len(ss) |->
                       [name |-> names[j].v, url |-> Get(ss[j], "url").v]])))

\* the subtitle loop of _parse_json_activity
ActivitySubtitles(blob) ==
    Bind(GetDefault(blob, "subtitles", EmptyList), LAMBDA subs :
    Bind(Iter(subs), LAMBDA ss :
        LET kept == SelectSeq(ss, LAMBDA s : IsDict(s) /\ "name" \in DOMAIN s.o)
        IN  Ok([j \in 1..Len(kept) |->
                  [name |-> kept[j].o["name"], url |-> Get(kept[j], "url").v]])))

\* the details comprehension of _parse_json_activity
ActivityDetails(blob) ==
    Bind(GetDefault(blob, "details", EmptyList), LAMBDA dets :
    Bind(Iter(dets), LAMBDA ds :
        LET kept == SelectSeq(ds, LAMBDA d : IsDict(d) /\ "name" \in DOMAIN d.o)
        IN  Ok([j \in 1..Len(kept) |-> kept[j].o["name"]])))

\* the locationInfos comprehension of _parse_json_activity
ActivityLocationInfos(blob) ==
    Bind(GetDefault(blob, "locationInfos", EmptyList), LAMBDA infos :
    Bind(Iter(infos), LAMBDA ls :
        LET gets == [j \in 1..Len(ls) |-> Get(ls[j], "name")]
        IN  IF ~AllOk(gets) THEN Failure(gets)
            ELSE Ok([j \in 1..Len(ls) |->
                       [name |-> Get(ls[j], "name").v,
                        url |-> convert_to_https_opt(Get(ls[j], "url").v),
                        source |-> Get(ls[j], "source").v,
                        sourceUrl |-> convert_to_https_opt(Get(ls[j], "sourceUrl").v)]])))

\* a plausible slip: the header is read from the record in both shapes
BuildActivity_HeaderOfRecord(blob) ==
    LET subtitles == ActivitySubtitles(blob)
        old_format == IsDict(blob) /\ "snippet" \in DOMAIN blob.o
        snippet == Index(blob, "snippet")
        inner == IF old_format THEN snippet.v ELSE blob
        header == Index(blob, "header")
        time_str == IF old_format THEN Index(inner, "publishedAt") ELSE Index(blob, "time")
        title == Index(inner, "title")
        titleUrl == Get(inner, "titleUrl")
        description == Get(inner, "description")
        time == Bind(time_str, LAMBDA ts : parse_json_utc_date(ts))
        details == ActivityDetails(inner)
        locationInfos == ActivityLocationInfos(inner)
        products == GetDefault(inner, "products", EmptyList)
        steps == <<subtitles, header, time_str, title, titleUrl, description, time,
                   details, locationInfos, products>>
    IN  IF ~AllOk(steps) THEN Failure(steps)
        ELSE Ok([ev |-> "Activity",
                 header |-> header.v,
                 title |-> title.v,
                 titleUrl |-> convert_to_https_opt(titleUrl.v),
                 description |-> description.v,
                 time |-> time.v,
                 subtitles |-> subtitles.v,
                 details |-> details.v,
                 locationInfos |-> locationInfos.v,
                 products |-> products.v])

\* the try block of _parse_json_activity for one record
BuildActivity(blob) ==
    LET subtitles == ActivitySubtitles(blob)
        old_format == IsDict(blob) /\ "snippet" \in DOMAIN blob.o
        snippet == Index(blob, "snippet")
        inner == IF old_format THEN snippet.v ELSE blob
        header == IF old_format THEN Ok(JStr("YouTube")) ELSE Index(blob, "header")
        time_str == IF old_format THEN Index(inner, "publishedAt") ELSE Index(blob, "time")
        title == Index(inner, "title")
        titleUrl == Get(inner, "titleUrl")
        description == Get(inner, "description")
        time == Bind(time_str, LAMBDA ts : parse_json_utc_date(ts))
        details == ActivityDetails(inner)
        locationInfos == ActivityLocationInfos(inner)
        products == GetDefault(inner, "products", EmptyList)
        steps == <<subtitles, header, time_str, title, titleUrl, description, time,
                   details, locationInfos, products>>
    IN  IF ~AllOk(steps) THEN Failure(steps)
        ELSE Ok([ev |-> "Activity",
                 header |-> header.v,
                 title |-> title.v,
                 titleUrl |-> convert_to_https_opt(titleUrl.v),
                 description |-> description.v,
                 time |-> time.v,
                 subtitles |-> subtitles.v,
                 details |-> details.v,
                 locationInfos |-> locationInfos.v,
                 products |-> products.v])

\* the try block of _parse_likes for one record
BuildLike(jlike) ==
    LET snippet == Index(jlike, "snippet")
        title == Bind(snippet, LAMBDA sn : Index(sn, "title"))
        desc == Bind(snippet, LAMBDA sn : Index(sn, "description"))
        videoId == Bind(Index(jlike, "contentDetails"), LAMBDA cd : Index(cd, "videoId"))
        dt == Bind(Bind(snippet, LAMBDA sn : Index(sn, "publishedAt")),
                   LAMBDA ts : parse_json_utc_date(ts))
        steps == <<title, desc, videoId, dt>>
    IN  IF ~AllOk(steps) THEN Failure(steps)
        ELSE Ok([ev |-> "LikedYoutubeVideo",
                 title |-> title.v,
                 desc |-> desc.v,
                 link |-> [prefix |-> "https://youtube.com/watch?v=", videoId |-> videoId.v],
                 dt |-> dt.v])

\* the try block of _parse_app_installs for one record
BuildAppInstall(japp) ==
    LET install == Index(japp, "install")
        title == Bind(Bind(install, LAMBDA ins : Index(ins, "doc")),
                      LAMBDA doc : Index(doc, "title"))
        device_name == Bind(Bind(install, LAMBDA ins : Index(ins, "deviceAttribute")),
                            LAMBDA da : Get(da, "deviceDisplayName"))
        dt == Bind(Bind(install, LAMBDA ins : Index(ins, "firstInstallationTime")),
                   LAMBDA ts : parse_json_utc_date(ts))
        steps == <<title, device_name, dt>>
    IN  IF ~AllOk(steps) THEN Failure(steps)
        ELSE Ok([ev |-> "PlayStoreAppInstall",
                 title |-> title.v,
                 device_name |-> device_name.v,
                 dt |-> dt.v])

\* the try block of _parse_location_history for one record; accuracy was
\* read before the try block
BuildLocation(loc, accuracy) ==
    LET lng == Bind(Bind(Index(loc, "longitudeE7"), LAMBDA x : ToFloat(x)), LAMBDA f : DivE7(f))
        lat == Bind(Bind(Index(loc, "latitudeE7"), LAMBDA x : ToFloat(x)), LAMBDA f : DivE7(f))
        dt == _parse_timestamp_key(loc, "timestamp", "timestampMs")
        acc == IF accuracy = JNull THEN Ok(JNull) ELSE ToFloat(accuracy)
        steps == <<lng, lat, dt, acc>>
    IN  IF ~AllOk(steps) THEN Failure(steps)
        ELSE Ok([ev |-> "Location",
                 lat |-> lat.v,
                 lng |-> lng.v,
                 accuracy |-> acc.v,
                 dt |-> dt.v])

\* the try block of _parse_chrome_history for one record
BuildChromeHistory(item) ==
    LET time_naive == Bind(Index(item, "time_usec"), LAMBDA us :
                          IF us.t = "num" THEN Ok(us.n)
                          ELSE Raise(TypeError("unsupported operand type(s) for /")))
        title == Index(item, "title")
        url == Index(item, "url")
        steps == <<time_naive, title, url>>
    IN  IF ~AllOk(steps) THEN Failure(steps)
        ELSE Ok([ev |-> "ChromeHistory",
                 title |-> title.v,
                 url |-> url.v,
                 dt |-> time_naive.v])

(***************************************************************************)
(* Value objects of models.py.                                             *)
(***************************************************************************)
\* [F(x) for x in v]: the list, or the first exception
MapList(v, F(_)) ==
    Bind(Iter(v), LAMBDA xs :
        LET rs == [j \in 1..Len(xs) |-> F(xs[j])]
        IN  IF ~AllOk(rs) THEN Failure(rs) ELSE Ok([j \in 1..Len(xs) |-> rs[j].v]))

\* CandidateLocation.from_dict
CandidateLocation_from_dict(data) ==
    LET address == Get(data, "address")
        name == Get(data, "name")
        placeId == Get(data, "placeId")
        locationConfidence == Get(data, "locationConfidence")
        lat == Bind(Index(data, "latitudeE7"), LAMBDA x : DivE7(x))
        lng == Bind(Index(data, "longitudeE7"), LAMBDA x : DivE7(x))
        deviceTag == Bind(GetDefault(data, "sourceInfo", EmptyObj),
                          LAMBDA si : Get(si, "deviceTag"))
        steps == <<address, name, placeId, locationConfidence, lat, lng, deviceTag>>
    IN  IF ~AllOk(steps) THEN Failure(steps)
        ELSE Ok([lat |-> lat.v,
                 lng |-> lng.v,
                 address |-> address.v,
                 name |-> name.v,
                 placeId |-> placeId.v,
                 locationConfidence |-> locationConfidence.v,
                 sourceInfoDeviceTag |-> deviceTag.v])

\* ActivitySegmentActivity.from_dict
ActivitySegmentActivity_from_dict(data) ==
    LET activityType == Index(data, "activityType")
        probability == Index(data, "probability")
        steps == <<activityType, probability>>
    IN  IF ~AllOk(steps) THEN Failure(steps)
        ELSE Ok([activityType |-> activityType.v, probability |-> probability.v])

\* Waypoint.from_dict
Waypoint_from_dict(data) ==
    LET lat == Bind(Index(data, "latE7"), LAMBDA x : DivE7(x))
        lng == Bind(Index(data, "lngE7"), LAMBDA x : DivE7(x))
        steps == <<lat, lng>>
    IN  IF ~AllOk(steps) THEN Failure(steps)
        ELSE Ok([lat |-> lat.v, lng |-> lng.v])

\* the road-segment duration strings of the model and float(s.rstrip("s"))
DurationTable == [s \in {"50s"} |-> 50] @@ [s \in {"50"} |-> 50]

\* RoadSegment.from_dict
RoadSegment_from_dict(data) ==
    LET placeId == Index(data, "placeId")
        duration ==
            Bind(In("duration", data), LAMBDA present :
                IF ~present THEN Ok(JNull)
                ELSE Bind(Index(data, "duration"), LAMBDA d :
                        IF d.t # "str" THEN Raise(AttributeError("no attribute 'rstrip'"))
                        ELSE IF d.s \in DOMAIN DurationTable
                             THEN Ok(JFloat(DurationTable[d.s], 1))
                             ELSE Raise(ValueError("could not convert string to float"))))
        steps == <<placeId, duration>>
    IN  IF ~AllOk(steps) THEN Failure(steps)
        ELSE Ok([placeId |-> placeId.v, duration |-> duration.v])

\* WaypointPath.from_dict
WaypointPath_from_dict(data) ==
    LET roadSegment ==
            Bind(Get(data, "roadSegment"), LAMBDA rs :
                IF ~Truthy(rs) THEN Ok(JNull)
                ELSE Bind(MapList(rs, RoadSegment_from_dict), LAMBDA l : Ok(JList(l))))
        waypoints == Bind(Index(data, "waypoints"), LAMBDA ws : MapList(ws, Waypoint_from_dict))
        source == Index(data, "source")
        distanceMeters == Get(data, "distanceMeters")
        travelMode == Get(data, "travelMode")
        confidence == Get(data, "confidence")
        steps == <<roadSegment, waypoints, source, distanceMeters, travelMode, confidence>>
    IN  IF ~AllOk(steps) THEN Failure(steps)
        ELSE Ok([t |-> "WaypointPath",
                 waypoints |-> waypoints.v,
                 source |-> source.v,
                 roadSegment |-> roadSegment.v,
                 distanceMeters |-> distanceMeters.v,
                 travelMode |-> travelMode.v,
                 confidence |-> confidence.v])

\* RawPathPoint.from_dict
RawPathPoint_from_dict(data) ==
    LET lat == Bind(Index(data, "latE7"), LAMBDA x : DivE7(x))
        lng == Bind(Index(data, "lngE7"), LAMBDA x : DivE7(x))
        accuracyMeters == Index(data, "accuracyMeters")
        timestamp == Bind(Index(data, "timestamp"), LAMBDA ts : parse_json_utc_date(ts))
        steps == <<lat, lng, accuracyMeters, timestamp>>
    IN  IF ~AllOk(steps) THEN Failure(steps)
        ELSE Ok([lat |-> lat.v, lng |-> lng.v,
                 accuracyMeters |-> accuracyMeters.v, timestamp |-> timestamp.v])

\* a plausible slip: the points are collected last entry first
SimplifiedRawPath_from_list_Reversed(data) ==
    Bind(MapList(data, RawPathPoint_from_dict), LAMBDA pts :
        Ok([points |-> [n \in 1..Len(pts) |-> pts[Len(pts) + 1 - n]]]))

\* SimplifiedRawPath.from_list
SimplifiedRawPath_from_list(data) ==
    Bind(MapList(data, RawPathPoint_from_dict), LAMBDA pts : Ok([points |-> pts]))

(***************************************************************************)
(* Semantic location history: the two sub-builders.                        *)
(***************************************************************************)
_sem_required_keys == <<"location", "duration">>
_sem_required_location_keys == <<"placeId", "latitudeE7", "longitudeE7">>
_sem_activity_segment_required_keys == <<"duration", "activities">>

\* _check_required_keys: the first key of required_keys that d lacks, or None
_check_required_keys(d, required_keys) ==
    LET tests == [j \in 1..Len(required_keys) |-> In(required_keys[j], d)]
        missing == {j \in 1..Len(required_keys) : tests[j].ok /\ ~tests[j].v}
    IN  IF ~AllOk(tests) THEN Failure(tests)
        ELSE IF missing = {} THEN Ok(JNull)
        ELSE Ok(JStr(required_keys[CHOOSE j \in missing : \A k \in missing : j <= k]))

\* a plausible slip: the exception of the try block is raised again as it is
RewrapKeyError_Bare(r, what, rec) == r

\* the except clause of both sub-builders: a KeyError is rewrapped
RewrapKeyError(r, what, rec) ==
    IF r.ok \/ r.exc.type # "KeyError" THEN r
    ELSE Raise(RuntimeError(what, r.exc.arg, rec))

\* float(placeVisit[key]) / 1e7 if key in placeVisit else None
CenterCoordinate(placeVisit, key) ==
    Bind(In(key, placeVisit), LAMBDA present :
        IF ~present THEN Ok(JNull)
        ELSE Bind(Bind(Index(placeVisit, key), LAMBDA x : ToFloat(x)), LAMBDA f : DivE7(f)))

\* the try block of _parse_place_visit after the check of the location keys
PlaceVisitBuild(placeVisit) ==
    LET location_json == Index(placeVisit, "location")
        location == Bind(location_json, LAMBDA lj : CandidateLocation_from_dict(lj))
        duration == Index(placeVisit, "duration")
        others == Bind(GetDefault(placeVisit, "otherCandidateLocations", EmptyList),
                       LAMBDA l : MapList(l, CandidateLocation_from_dict))
        placeConfidence == Get(placeVisit, "placeConfidence")
        placeVisitImportance == Get(placeVisit, "placeVisitImportance")
        placeVisitType == Get(placeVisit, "placeVisitType")
        visitConfidence == Get(placeVisit, "visitConfidence")
        editConfirmationStatus == Get(placeVisit, "editConfirmationStatus")
        centerLat == CenterCoordinate(placeVisit, "centerLatE7")
        centerLng == CenterCoordinate(placeVisit, "centerLngE7")
        startTime == Bind(duration, LAMBDA d :
                         _parse_timestamp_key(d, "startTimestamp", "startTimestampMs"))
        endTime == Bind(duration, LAMBDA d :
                       _parse_timestamp_key(d, "endTimestamp", "endTimestampMs"))
        steps == <<location, duration, others, placeConfidence, placeVisitImportance,
                   placeVisitType, visitConfidence, editConfirmationStatus,
                   centerLat, centerLng, startTime, endTime>>
    IN  IF ~AllOk(steps) THEN Failure(steps)
        ELSE Ok([ev |-> "PlaceVisit",
                 name |-> location.v.name,
                 address |-> location.v.address,
                 otherCandidateLocations |-> others.v,
                 sourceInfoDeviceTag |-> location.v.sourceInfoDeviceTag,
                 placeConfidence |-> placeConfidence.v,
                 placeVisitImportance |-> placeVisitImportance.v,
                 placeVisitType |-> placeVisitType.v,
                 visitConfidence |-> visitConfidence.v,
                 editConfirmationStatus |-> editConfirmationStatus.v,
                 placeId |-> location.v.placeId,
                 lng |-> location.v.lng,
                 lat |-> location.v.lat,
                 centerLat |-> centerLat.v,
                 centerLng |-> centerLng.v,
                 startTime |-> startTime.v,
                 endTime |-> endTime.v,
                 locationConfidence |-> location.v.locationConfidence])

\* a plausible slip: the visit is built whatever its location lacks
PlaceVisitBody_NoDiscard(placeVisit) == PlaceVisitBuild(placeVisit)

\* the try block of _parse_place_visit: a visit whose location lacks one of
\* the required location keys is dropped (None is returned)
PlaceVisitBody(placeVisit) ==
    LET missing_location_key ==
            Bind(Index(placeVisit, "location"),
                 LAMBDA lj : _check_required_keys(lj, _sem_required_location_keys))
    IN  IF ~missing_location_key.ok THEN missing_location_key
        ELSE IF missing_location_key.v # JNull THEN Ok(JNull)
        ELSE PlaceVisitBuild(placeVisit)

\* a plausible slip: the silent discard is decided before the required keys
\* are checked
_parse_place_visit_DiscardFirst(placeVisit) ==
    LET missing_key == _check_required_keys(placeVisit, _sem_required_keys)
        body == RewrapKeyError(PlaceVisitBody(placeVisit), "PlaceVisit: no key", placeVisit)
    IN  IF ~missing_key.ok THEN missing_key
        ELSE IF body = Ok(JNull) THEN body
        ELSE IF missing_key.v # JNull
        THEN Raise(RuntimeError("PlaceVisit: no required key", {missing_key.v.s}, placeVisit))
        ELSE body

\* _parse_place_visit: the event, None for a silently discarded visit, or
\* the exception it raises
_parse_place_visit(placeVisit) ==
    LET missing_key == _check_required_keys(placeVisit, _sem_required_keys)
    IN  IF ~missing_key.ok THEN missing_key
        ELSE IF missing_key.v # JNull
        THEN Raise(RuntimeError("PlaceVisit: no required key", {missing_key.v.s}, placeVisit))
        ELSE RewrapKeyError(PlaceVisitBody(placeVisit), "PlaceVisit: no key", placeVisit)

\* a plausible slip: every location that is present is decoded
SegmentEndpoint_KeyPresent(activitySegment, key) ==
    Bind(Index(activitySegment, key), LAMBDA loc :
        Bind(CandidateLocation_from_dict(loc), LAMBDA c : Ok([lat |-> c.lat, lng |-> c.lng])))

\* the start/end location of an activity segment: its (lat, lng), both None
\* when the location is falsy
SegmentEndpoint(activitySegment, key) ==
    Bind(Index(activitySegment, key), LAMBDA loc :
        IF Truthy(loc)
        THEN Bind(CandidateLocation_from_dict(loc), LAMBDA c : Ok([lat |-> c.lat, lng |-> c.lng]))
        ELSE Ok([lat |-> JNull, lng |-> JNull]))

\* the try block of _parse_activity_segment
ActivitySegmentBody(activitySegment) ==
    LET start == SegmentEndpoint(activitySegment, "startLocation")
        end == SegmentEndpoint(activitySegment, "endLocation")
        duration == Index(activitySegment, "duration")
        startTime == Bind(Bind(duration, LAMBDA d : Index(d, "startTimestamp")),
                          LAMBDA ts : parse_json_utc_date(ts))
        endTime == Bind(Bind(duration, LAMBDA d : Index(d, "endTimestamp")),
                        LAMBDA ts : parse_json_utc_date(ts))
        distance == Get(activitySegment, "distance")
        activityType == Get(activitySegment, "activityType")
        confidence == Get(activitySegment, "confidence")
        activities == Bind(GetDefault(activitySegment, "activities", EmptyList),
                           LAMBDA l : MapList(l, ActivitySegmentActivity_from_dict))
        waypointPath ==
            Bind(In("waypointPath", activitySegment), LAMBDA present :
                IF ~present THEN Ok(JNull)
                ELSE Bind(Index(activitySegment, "waypointPath"),
                          LAMBDA wp : WaypointPath_from_dict(wp)))
        simplifiedRawPath ==
            Bind(GetDefault(activitySegment, "simplifiedRawPath", EmptyObj), LAMBDA srp :
            Bind(GetDefault(srp, "points", EmptyList), LAMBDA pts :
                SimplifiedRawPath_from_list(pts)))
        editConfirmationStatus == Get(activitySegment, "editConfirmationStatus")
        steps == <<start, end, startTime, endTime, distance, activityType, confidence,
                   activities, waypointPath, simplifiedRawPath, editConfirmationStatus>>
    IN  IF ~AllOk(steps) THEN Failure(steps)
        ELSE Ok([ev |-> "ActivitySegment",
                 startLat |-> start.v.lat,
                 startLng |-> start.v.lng,
                 endLat |-> end.v.lat,
                 endLng |-> end.v.lng,
                 startTime |-> startTime.v,
                 endTime |-> endTime.v,
                 distance |-> distance.v,
                 activityType |-> activityType.v,
                 confidence |-> confidence.v,
                 activities |-> activities.v,
                 waypointPath |-> waypointPath.v,
                 simplifiedRawPath |-> simplifiedRawPath.v,
                 editConfirmationStatus |-> editConfirmationStatus.v])

\* _parse_activity_segment
_parse_activity_segment(activitySegment) ==
    LET missing_key == _check_required_keys(activitySegment, _sem_activity_segment_required_keys)
    IN  IF ~missing_key.ok THEN missing_key
        ELSE IF missing_key.v # JNull
        THEN Raise(RuntimeError("ActivitySegment: no required key", {missing_key.v.s},
                                activitySegment))
        ELSE RewrapKeyError(ActivitySegmentBody(activitySegment), "ActivitySegment: no key",
                            activitySegment)

\* Activity.key
Activity_key(e) == <<e.header, e.title, EpochSecond(e.time)>>

\* LikedYoutubeVideo.key
LikedYoutubeVideo_key(e) == EpochSecond(e.dt)

\* PlayStoreAppInstall.key
PlayStoreAppInstall_key(e) == EpochSecond(e.dt)

\* Location.key
Location_key(e) == <<e.lat, e.lng, e.accuracy, EpochSecond(e.dt)>>

\* PlaceVisit.key
PlaceVisit_key(e) == <<e.lat, e.lng, EpochSecond(e.startTime), e.visitConfidence>>

\* ChromeHistory.key
ChromeHistory_key(e) == <<e.url, EpochSecond(e.dt)>>

\* a plausible slip: the key also tells segments apart by activity type
ActivitySegment_key_WithType(e) ==
    <<EpochSecond(e.startTime), EpochSecond(e.endTime), e.distance, e.activityType>>

\* ActivitySegment.key
ActivitySegment_key(e) == <<EpochSecond(e.startTime), EpochSecond(e.endTime), e.distance>>

(***************************************************************************)
(* The documents of the model.                                             *)
(***************************************************************************)
Iso1 == JStr("1970-01-01T00:00:01Z")
Iso15 == JStr("1970-01-01T00:00:01.500Z")
Iso2 == JStr("1970-01-01T00:00:02Z")

ActivityRecords ==
    { JObj([header |-> JStr("Discover"), title |-> JStr("7 cards"), time |-> Iso15,
            titleUrl |-> JStr("http://a.example/x"),
            products |-> JList(<<JStr("Discover")>>),
            subtitles |-> JList(<<JObj([name |-> JStr("Programming")]), EmptyObj, JStr("x"),
                                  JObj([name |-> JStr("B"), url |-> JStr("http://a.example/x")])>>),
            details |-> JList(<<JNum(1), JObj([name |-> JStr("d")]), EmptyObj,
                                JObj([name |-> JStr("e")])>>)]),
      \* the legacy shape, in a record whose own fields all differ from
      \* those of its snippet
      JObj([header |-> JStr("Ignored"), title |-> JStr("Outer"), time |-> Iso2,
            description |-> JStr("outer"), products |-> JList(<<JStr("Outer")>>),
            details |-> JList(<<JObj([name |-> JStr("od")])>>),
            snippet |-> JObj([title |-> JStr("Watched"), publishedAt |-> Iso1,
                              description |-> JStr("inner"),
                              titleUrl |-> JStr("http://a.example/x"),
                              details |-> JList(<<JObj([name |-> JStr("sd")]), JNull>>),
                              locationInfos |-> JList(<<JObj([name |-> JStr("loc")])>>),
                              products |-> JList(<<JStr("YouTube")>>)])]),
      JObj([header |-> JStr("Search"), time |-> Iso1]),
      JObj([title |-> JStr("q"), time |-> Iso1]),
      JObj([snippet |-> JObj([title |-> JStr("Watched")])]),
      JObj([header |-> JStr("Search"), title |-> JStr("q"), time |-> JStr("yesterday")]),
      JNum(7) }

LikeRecords ==
    { JObj([snippet |-> JObj([title |-> JStr("v"), description |-> JStr("d"),
                              publishedAt |-> Iso1]),
            contentDetails |-> JObj([videoId |-> JStr("J1tF")])]),
      JObj([snippet |-> JObj([title |-> JStr("v"), description |-> JStr("d"),
                              publishedAt |-> Iso1])]),
      JObj([snippet |-> JStr("v"), contentDetails |-> JObj([videoId |-> JStr("J1tF")])]),
      JNull }

AppInstallRecords ==
    { JObj([install |-> JObj([doc |-> JObj([title |-> JStr("Discord")]),
                              firstInstallationTime |-> Iso15,
                              deviceAttribute |-> JObj([deviceDisplayName |-> JStr("moto")])])]),
      JObj([install |-> JObj([doc |-> JObj([title |-> JStr("Discord")]),
                              firstInstallationTime |-> Iso2,
                              deviceAttribute |-> EmptyObj])]),
      JObj([install |-> JObj([doc |-> JObj([title |-> JStr("Discord")]),
                              firstInstallationTime |-> Iso2])]),
      EmptyObj,
      JStr("x") }

LocationRecords ==
    { JObj([timestampMs |-> JStr("1500"), latitudeE7 |-> JNum(351324213),
            longitudeE7 |-> JNum(0 - 1122434441), accuracy |-> JNum(10)]),
      JObj([timestamp |-> Iso2, latitudeE7 |-> JNum(351324213),
            longitudeE7 |-> JNum(0 - 1122434441)]),
      JObj([timestampMs |-> JNum(3000), timestamp |-> Iso1, latitudeE7 |-> JNum(1),
            longitudeE7 |-> JNum(2)]),
      JObj([timestampMs |-> JNull, timestamp |-> Iso1, latitudeE7 |-> JNum(1),
            longitudeE7 |-> JNum(2)]),
      JObj([timestamp |-> Iso1, longitudeE7 |-> JNum(2)]),
      JObj([latitudeE7 |-> JNum(1), longitudeE7 |-> JNum(2)]),
      JObj([timestamp |-> Iso1, latitudeE7 |-> JNull, longitudeE7 |-> JNum(2)]),
      JNum(5),
      JStr("ab") }

ChromeRecords ==
    { JObj([title |-> JStr("sean"), url |-> JStr("http://a.example/x"), time_usec |-> JNum(1500000)]),
      JObj([title |-> JStr("sean"), time_usec |-> JNum(1500000)]),
      \* visits half a second before and half a second after the epoch
      JObj([title |-> JStr("old"), url |-> JStr("http://a.example/x"),
            time_usec |-> JNum(0 - 500000)]),
      JObj([title |-> JStr("old"), url |-> JStr("http://a.example/x"),
            time_usec |-> JNum(500000)]),
      JObj([title |-> JStr("sean"), url |-> JStr("http://a.example/x"), time_usec |-> JStr("1500")]),
      JNull }

\* a candidate location with the three keys a place visit needs
FullLocation == JObj([placeId |-> JStr("XPRK4E4P"), latitudeE7 |-> JNum(555555555),
                      longitudeE7 |-> JNum(0 - 1066666666), name |-> JStr("Some Place")])
IsoDuration == JObj([startTimestamp |-> Iso1, endTimestamp |-> Iso2])

PlaceVisitObjects ==
    { \* a complete visit
      JObj([placeVisit |-> JObj([location |-> FullLocation, duration |-> IsoDuration,
                                 visitConfidence |-> JNum(65)])]),
      \* both the ISO and the millisecond fields, which disagree
      JObj([placeVisit |-> JObj([location |-> FullLocation,
                duration |-> JObj([startTimestamp |-> Iso1, startTimestampMs |-> JStr("1500"),
                                   endTimestamp |-> Iso2, endTimestampMs |-> JNum(3000)])])]),
      \* only the millisecond fields
      JObj([placeVisit |-> JObj([location |-> FullLocation,
                duration |-> JObj([startTimestampMs |-> JNum(1500),
                                   endTimestampMs |-> JStr("3000")])])]),
      \* a millisecond field that does not decode, next to a valid ISO field
      JObj([placeVisit |-> JObj([location |-> FullLocation,
                duration |-> JObj([startTimestamp |-> Iso1, startTimestampMs |-> JNull,
                                   endTimestamp |-> Iso2])])]),
      \* locations that lack one of the three keys, or all of them
      JObj([placeVisit |-> JObj([location |-> JObj([latitudeE7 |-> JNum(555555555),
                                                    longitudeE7 |-> JNum(0 - 1066666666)]),
                                 duration |-> IsoDuration])]),
      JObj([placeVisit |-> JObj([location |-> JObj([placeId |-> JStr("XPRK4E4P"),
                                                    longitudeE7 |-> JNum(0 - 1066666666)]),
                                 duration |-> IsoDuration])]),
      JObj([placeVisit |-> JObj([location |-> JObj([placeId |-> JStr("XPRK4E4P"),
                                                    latitudeE7 |-> JNum(555555555)]),
                                 duration |-> IsoDuration])]),
      JObj([placeVisit |-> JObj([location |-> EmptyObj, duration |-> EmptyObj])]),
      \* one center coordinate only
      JObj([placeVisit |-> JObj([location |-> FullLocation, duration |-> IsoDuration,
                                 centerLatE7 |-> JNum(555000000)])]),
      JObj([placeVisit |-> JObj([location |-> FullLocation, duration |-> IsoDuration,
                                 centerLngE7 |-> JNum(0 - 1066000000)])]),
      \* no duration, and a location without placeId
      JObj([placeVisit |-> JObj([location |-> JObj([latitudeE7 |-> JNum(555555555),
                                                    longitudeE7 |-> JNum(0 - 1066666666)])])]),
      \* missing required keys
      JObj([placeVisit |-> JObj([location |-> FullLocation])]),
      JObj([placeVisit |-> JObj([duration |-> IsoDuration])]),
      \* a duration without its start
      JObj([placeVisit |-> JObj([location |-> FullLocation,
                                 duration |-> JObj([endTimestamp |-> Iso2])])]),
      \* a place visit that is not an object
      JObj([placeVisit |-> JNum(1)]) }

Activities == JList(<<JObj([activityType |-> JStr("WALKING"), probability |-> JNum(80)])>>)
StartLoc == JObj([latitudeE7 |-> JNum(377624484), longitudeE7 |-> JNum(0 - 1223967085)])
EndLoc == JObj([latitudeE7 |-> JNum(377944635), longitudeE7 |-> JNum(0 - 1224026022)])

ActivitySegmentObjects ==
    { \* the segment of an old export: empty start and end locations
      JObj([activitySegment |-> JObj([startLocation |-> EmptyObj, endLocation |-> EmptyObj,
                duration |-> IsoDuration, distance |-> JNum(735), confidence |-> JStr("LOW"),
                activities |-> Activities])]),
      \* same times and distance, everything else different
      JObj([activitySegment |-> JObj([startLocation |-> StartLoc, endLocation |-> EndLoc,
                duration |-> IsoDuration, distance |-> JNum(735), confidence |-> JStr("HIGH"),
                activityType |-> JStr("IN_BUS"),
                activities |-> EmptyList,
                editConfirmationStatus |-> JStr("CONFIRMED"),
                waypointPath |-> JObj([waypoints |-> JList(<<JObj([latE7 |-> JNum(1),
                                                                    lngE7 |-> JNum(2)])>>),
                                       source |-> JStr("INFERRED"),
                                       roadSegment |-> JList(<<JObj([placeId |-> JStr("ChIJ"),
                                                                     duration |-> JStr("50s")])>>)]),
                simplifiedRawPath |-> JObj([points |-> JList(<<JObj([latE7 |-> JNum(3),
                        lngE7 |-> JNum(4), accuracyMeters |-> JNum(5), timestamp |-> Iso15]),
                    JObj([latE7 |-> JNum(1), lngE7 |-> JNum(2), accuracyMeters |-> JNum(9),
                          timestamp |-> Iso2])>>)])])]),
      \* one empty endpoint only
      JObj([activitySegment |-> JObj([startLocation |-> EmptyObj, endLocation |-> EndLoc,
                duration |-> IsoDuration, distance |-> JNum(10), activities |-> Activities])]),
      JObj([activitySegment |-> JObj([startLocation |-> StartLoc, endLocation |-> EmptyObj,
                duration |-> JObj([startTimestamp |-> Iso15, endTimestamp |-> Iso2]),
                activities |-> Activities])]),
      \* an empty start location in a segment whose end location is broken
      JObj([activitySegment |-> JObj([startLocation |-> EmptyObj,
                endLocation |-> JObj([latitudeE7 |-> JNum(1)]),
                duration |-> IsoDuration, activities |-> Activities])]),
      \* no startLocation key, no endLocation key
      JObj([activitySegment |-> JObj([endLocation |-> EndLoc, duration |-> IsoDuration,
                                      activities |-> Activities])]),
      JObj([activitySegment |-> JObj([startLocation |-> StartLoc, duration |-> IsoDuration,
                                      activities |-> Activities])]),
      \* a waypoint path without its source
      JObj([activitySegment |-> JObj([startLocation |-> EmptyObj, endLocation |-> EmptyObj,
                duration |-> IsoDuration, activities |-> Activities,
                waypointPath |-> JObj([waypoints |-> EmptyList])])]),
      \* an activity that is not an object
      JObj([activitySegment |-> JObj([startLocation |-> EmptyObj, endLocation |-> EmptyObj,
                duration |-> IsoDuration, activities |-> JList(<<JNum(1)>>)])]),
      \* both the ISO and the millisecond fields, which disagree
      JObj([activitySegment |-> JObj([startLocation |-> EmptyObj, endLocation |-> EmptyObj,
                duration |-> JObj([startTimestamp |-> Iso1, startTimestampMs |-> JStr("1500"),
                                   endTimestamp |-> Iso2, endTimestampMs |-> JNum(3000)]),
                activities |-> Activities])]),
      \* only the millisecond fields
      JObj([activitySegment |-> JObj([startLocation |-> EmptyObj, endLocation |-> EmptyObj,
                duration |-> JObj([startTimestampMs |-> JNum(1500),
                                   endTimestampMs |-> JStr("3000")]),
                activities |-> Activities])]),
      \* missing required keys
      JObj([activitySegment |-> JObj([startLocation |-> EmptyObj, endLocation |-> EmptyObj,
                                      activities |-> Activities])]),
      JObj([activitySegment |-> JObj([startLocation |-> EmptyObj, endLocation |-> EmptyObj,
                                      duration |-> IsoDuration])]) }

\* timeline objects that carry both branch keys: a complete visit, a visit
\* that is discarded and a visit without duration, each next to a segment
BasicSegment == JObj([startLocation |-> EmptyObj, endLocation |-> EmptyObj,
                      duration |-> IsoDuration, distance |-> JNum(735),
                      activities |-> Activities])

BothKeyObjects ==
    { JObj([placeVisit |-> JObj([location |-> FullLocation, duration |-> IsoDuration]),
            activitySegment |-> BasicSegment]),
      JObj([placeVisit |-> JObj([location |-> EmptyObj, duration |-> IsoDuration]),
            activitySegment |-> BasicSegment]),
      JObj([placeVisit |-> JObj([location |-> FullLocation]),
            activitySegment |-> BasicSegment]) }

OtherTimelineObjects ==
    { JObj([unknownThing |-> JNum(1), other |-> JNull]),
      EmptyObj,
      JNum(3),
      JStr("ab") }

TimelineObjects ==
    PlaceVisitObjects \cup ActivitySegmentObjects \cup BothKeyObjects \cup OtherTimelineObjects

Kinds == {"activity", "likes", "app_installs", "location", "semantic", "chrome"}

ListKinds == {"activity", "likes", "app_installs"}

RecordsOf(k) ==
    CASE k = "activity" -> ActivityRecords
      [] k = "likes" -> LikeRecords
      [] k = "app_installs" -> AppInstallRecords
      [] k = "location" -> LocationRecords
      [] k = "semantic" -> TimelineObjects
      [] k = "chrome" -> ChromeRecords

\* the key of the top-level object that holds the records
EnvelopeKey(k) ==
    CASE k = "location" -> "locations"
      [] k = "semantic" -> "timelineObjects"
      [] k = "chrome" -> "Browser History"
      [] OTHER -> ""

SeqsUpTo(S, n) == UNION {[1..m -> S] : m \in 0..n}

\* the object {key: value}
Single(key, value) == JObj([x \in {key} |-> value])

\* the record lists a document of kind k can hold
RecordLists(k) == {JList(l) : l \in SeqsUpTo(RecordsOf(k), MaxRecords)}

\* the documents whose top level has the shape the extractor expects
WellFormedDocs(k) ==
    IF k \in ListKinds THEN RecordLists(k)
    ELSE {Single(EnvelopeKey(k), l) : l \in RecordLists(k)}

\* a top-level object without the key that holds the records
KeylessDocs == {EmptyObj, JObj([version |-> JNum(1)]), JObj([a |-> JNull, b |-> JNull])}

\* top-level values of the wrong type
WrongTypeDocs(k) ==
    IF k \in ListKinds
    THEN {JNull, JNum(5), JStr(""), JStr("ab")} \cup KeylessDocs
    ELSE {JNull, JNum(5), JStr(""), JStr("ab"), JStr(EnvelopeKey(k)),
          EmptyList, JList(<<JNum(1)>>), JList(<<JStr(EnvelopeKey(k))>>)}

\* a top-level object whose records are not held in a list
NoListDocs(k) ==
    IF k \in ListKinds THEN {}
    ELSE {Single(EnvelopeKey(k), JNull), Single(EnvelopeKey(k), JStr("ab")),
          Single(EnvelopeKey(k), JObj([a |-> JNum(1)]))}

Docs(k) ==
    WellFormedDocs(k) \cup WrongTypeDocs(k) \cup NoListDocs(k)
        \cup (IF k \in ListKinds THEN {} ELSE KeylessDocs)

(***************************************************************************)
(* The generators.                                                         *)
(***************************************************************************)
VARIABLES
    kind,       \* the extractor that was invoked
    json_data,  \* the decoded document
    pc,         \* "start", "loop", "done" (exhausted) or "raised"
    items,      \* the sequence the for loop iterates over
    i,          \* the position of the next item of the loop
    out,        \* the outcomes yielded so far
    result,     \* the local variable `result` of _parse_semantic_location_history
    raised      \* the exception that left the generator, if any

vars == <<kind, json_data, pc, items, i, out, result, raised>>

\* an outcome: at is the position of the record the loop was at when it was
\* yielded (0 before the loop), src the position of the record it was built from
Event(v, at, src) == [ok |-> TRUE, val |-> v, at |-> at, src |-> src]
Error(e, at) == [ok |-> FALSE, val |-> e, at |-> at, src |-> at]

DocError(what) == Error(RuntimeError(what, {}, JNull), 0)

\* the outcome of a record's try block
Outcome(r, at) == IF r.ok THEN Event(r.v, at, at) ELSE Error(r.exc, at)

Unbound == [bound |-> FALSE, v |-> JNull, src |-> 0]

Init ==
    /\ kind \in Kinds
    /\ json_data \in Docs(kind)
    /\ pc = "start"
    /\ items = <<>>
    /\ i = 1
    /\ out = <<>>
    /\ result = Unbound
    /\ raised = JNull

\* the generator runs up to its for loop having yielded pre; iterable is
\* the evaluation of the expression the loop iterates over
EnterLoop(pre, iterable) ==
    LET it == Bind(iterable, LAMBDA v : Iter(v))
    IN  /\ out' = pre
        /\ IF it.ok
           THEN /\ items' = it.v
                /\ pc' = "loop"
                /\ raised' = raised
           ELSE /\ items' = items
                /\ pc' = "raised"
                /\ raised' = it.exc
        /\ UNCHANGED <<kind, json_data, i, result>>

\* the generator stops with exception e before its loop, having yielded pre
RaiseBeforeLoop(pre, e) ==
    /\ out' = pre
    /\ pc' = "raised"
    /\ raised' = e
    /\ UNCHANGED <<kind, json_data, items, i, result>>

\* the head of an extractor that expects a top-level list
ListHead(what) ==
    EnterLoop(IF ~IsList(json_data) THEN <<DocError(what)>> ELSE <<>>, Ok(json_data))

\* a plausible slip: the list is read without the empty fallback
KeyHead_NoFallback(pre, key, what) ==
    LET present == In(key, json_data)
        errs == IF present.ok /\ ~present.v THEN Append(pre, DocError(what)) ELSE pre
    IN  IF ~present.ok THEN RaiseBeforeLoop(pre, present.exc)
        ELSE EnterLoop(errs, Index(json_data, key))

\* the head of an extractor that expects a top-level object with a key
\* (after the outcomes pre)
KeyHead(pre, key, what) ==
    LET present == In(key, json_data)
        errs == IF present.ok /\ ~present.v THEN Append(pre, DocError(what)) ELSE pre
    IN  IF ~present.ok THEN RaiseBeforeLoop(pre, present.exc)
        ELSE EnterLoop(errs, GetDefault(json_data, key, EmptyList))

_parse_json_activity_head ==
    /\ pc = "start" /\ kind = "activity"
    /\ ListHead("Activity: Top level item isn't a list")

_parse_likes_head ==
    /\ pc = "start" /\ kind = "likes"
    /\ ListHead("Likes: Top level item isn't a list")

_parse_app_installs_head ==
    /\ pc = "start" /\ kind = "app_installs"
    /\ ListHead("App installs: Top level item isn't a list")

_parse_location_history_head ==
    /\ pc = "start" /\ kind = "location"
    /\ KeyHead(<<>>, "locations", "Locations: no 'locations' key")

_parse_semantic_location_history_head ==
    /\ pc = "start" /\ kind = "semantic"
    /\ KeyHead(IF ~IsDict(json_data)
               THEN <<DocError("Locations: Top level item isn't a dict")>> ELSE <<>>,
               "timelineObjects", "Locations: no 'timelineObjects' key")

_parse_chrome_history_head ==
    /\ pc = "start" /\ kind = "chrome"
    /\ KeyHead(<<>>, "Browser History", "Chrome/BrowserHistory: no 'Browser History' key")

\* a plausible slip: a record that fails is skipped
TryStep_SkipFailed(r) ==
    /\ out' = IF r.ok THEN Append(out, Outcome(r, i)) ELSE out
    /\ i' = i + 1
    /\ UNCHANGED <<kind, json_data, pc, items, result, raised>>

\* one pass of a loop whose whole body is a try block: yield the event or
\* the exception
TryStep(r) ==
    /\ out' = Append(out, Outcome(r, i))
    /\ i' = i + 1
    /\ UNCHANGED <<kind, json_data, pc, items, result, raised>>

_parse_json_activity_record ==
    /\ pc = "loop" /\ kind = "activity" /\ i <= Len(items)
    /\ TryStep(BuildActivity(items[i]))

_parse_likes_record ==
    /\ pc = "loop" /\ kind = "likes" /\ i <= Len(items)
    /\ TryStep(BuildLike(items[i]))

_parse_app_installs_record ==
    /\ pc = "loop" /\ kind = "app_installs" /\ i <= Len(items)
    /\ TryStep(BuildAppInstall(items[i]))

_parse_chrome_history_record ==
    /\ pc = "loop" /\ kind = "chrome" /\ i <= Len(items)
    /\ TryStep(BuildChromeHistory(items[i]))

\* one pass of the loop of _parse_location_history: accuracy is read
\* before the try block is entered
LocationStep(loc) ==
    LET accuracy == Get(loc, "accuracy")
    IN  IF accuracy.ok
        THEN TryStep(BuildLocation(loc, accuracy.v))
        ELSE /\ pc' = "raised"
             /\ raised' = accuracy.exc
             /\ UNCHANGED <<kind, json_data, items, i, out, result>>

_parse_location_history_record ==
    /\ pc = "loop" /\ kind = "location" /\ i <= Len(items)
    /\ LocationStep(items[i])

\* a plausible slip: a failed sub-builder call leaves `result` cleared
SubBuilder_FailureClearsResult(r, res, at) ==
    IF ~r.ok THEN [yields |-> <<Error(r.exc, at)>>,
                   result |-> [bound |-> TRUE, v |-> JNull, src |-> at]]
    ELSE [yields |-> IF r.v # JNull THEN <<Event(r.v, at, at)>> ELSE <<>>,
          result |-> [bound |-> TRUE, v |-> r.v, src |-> at]]

\* the call of a sub-builder in the dispatch: [yields, result] after it
SubBuilder(r, res, at) ==
    IF ~r.ok THEN [yields |-> <<Error(r.exc, at)>>, result |-> res]
    ELSE [yields |-> IF r.v # JNull THEN <<Event(r.v, at, at)>> ELSE <<>>,
          result |-> [bound |-> TRUE, v |-> r.v, src |-> at]]

\* a plausible slip: an unknown timeline object is passed over
UnknownObject_Silent(timelineObject, res, at) ==
    [yields |-> IF ~res.bound THEN <<Error(UnboundLocalError("result"), at)>>
                ELSE IF res.v # JNull THEN <<Event(res.v, at, res.src)>>
                ELSE <<>>,
     result |-> res]

\* the else branch of the dispatch and the test of `result` that follows it
UnknownObject(timelineObject, res, at) ==
    IF ~IsDict(timelineObject)
    THEN [yields |-> <<Error(AttributeError("no attribute 'keys'"), at)>>, result |-> res]
    ELSE LET unknown == Error(RuntimeError("Unknown timeline object with keys",
                                           DOMAIN timelineObject.o, JNull), at)
         IN  [yields |-> IF ~res.bound THEN <<unknown, Error(UnboundLocalError("result"), at)>>
                         ELSE IF res.v # JNull THEN <<unknown, Event(res.v, at, res.src)>>
                         ELSE <<unknown>>,
              result |-> res]

\* a plausible slip: the activitySegment key is tested before placeVisit
Dispatch_SegmentFirst(timelineObject, res, at) ==
    LET isVisit == In("placeVisit", timelineObject)
        isSegment == In("activitySegment", timelineObject)
    IN  IF ~isSegment.ok THEN [yields |-> <<Error(isSegment.exc, at)>>, result |-> res]
        ELSE IF isSegment.v
        THEN SubBuilder(Bind(Index(timelineObject, "activitySegment"),
                             LAMBDA seg : _parse_activity_segment(seg)), res, at)
        ELSE IF isVisit.v
        THEN SubBuilder(Bind(Index(timelineObject, "placeVisit"),
                             LAMBDA pv : _parse_place_visit(pv)), res, at)
        ELSE UnknownObject(timelineObject, res, at)

\* the try block of _parse_semantic_location_history for one timeline
\* object: the outcomes it yields and the value of `result` after it
Dispatch(timelineObject, res, at) ==
    LET isVisit == In("placeVisit", timelineObject)
        isSegment == In("activitySegment", timelineObject)
    IN  IF ~isVisit.ok THEN [yields |-> <<Error(isVisit.exc, at)>>, result |-> res]
        ELSE IF isVisit.v
        THEN SubBuilder(Bind(Index(timelineObject, "placeVisit"),
                             LAMBDA pv : _parse_place_visit(pv)), res, at)
        ELSE IF isSegment.v
        THEN SubBuilder(Bind(Index(timelineObject, "activitySegment"),
                             LAMBDA seg : _parse_activity_segment(seg)), res, at)
        ELSE UnknownObject(timelineObject, res, at)

_parse_semantic_location_history_record ==
    /\ pc = "loop" /\ kind = "semantic" /\ i <= Len(items)
    /\ LET d == Dispatch(items[i], result, i)
       IN  /\ out' = out \o d.yields
           /\ result' = d.result
    /\ i' = i + 1
    /\ UNCHANGED <<kind, json_data, pc, items, raised>>

\* the for loop is exhausted and the generator returns
Exhausted ==
    /\ pc = "loop" /\ i > Len(items)
    /\ pc' = "done"
    /\ UNCHANGED <<kind, json_data, items, i, out, result, raised>>

Next ==
    \/ _parse_json_activity_head
    \/ _parse_json_activity_record
    \/ _parse_likes_head
    \/ _parse_likes_record
    \/ _parse_app_installs_head
    \/ _parse_app_installs_record
    \/ _parse_location_history_head
    \/ _parse_location_history_record
    \/ _parse_semantic_location_history_head
    \/ _parse_semantic_location_history_record
    \/ _parse_chrome_history_head
    \/ _parse_chrome_history_record
    \/ Exhausted

Spec == Init /\ [][Next]_vars

\* every value stays in its domain
TypeOK ==
    /\ kind \in Kinds
    /\ pc \in {"start", "loop", "done", "raised"}
    /\ i \in 1..(Len(items) + 1)
    /\ result.bound \in BOOLEAN
    /\ \A j \in 1..Len(out) : out[j].ok \in BOOLEAN /\ out[j].at \in 0..Len(items)

(***************************************************************************)
(* Properties.                                                             *)
(***************************************************************************)
ObjectKinds == Kinds \ ListKinds

\* the top-level value has the wrong type for the extractor
EnvelopeMismatch ==
    \/ kind \in ListKinds /\ ~IsList(json_data)
    \/ kind \in ObjectKinds /\ ~IsDict(json_data)

\* the top level has the shape the extractor expects: a list, or an object
\* that holds a list under the envelope key
WellFormedEnvelope ==
    IF kind \in ListKinds THEN IsList(json_data)
    ELSE /\ IsDict(json_data)
         /\ EnvelopeKey(kind) \in DOMAIN json_data.o
         /\ IsList(json_data.o[EnvelopeKey(kind)])

\* the records of a document whose envelope is well formed
RecordsOfDoc == IF kind \in ListKinds THEN json_data.l ELSE json_data.o[EnvelopeKey(kind)].l

IsDocShapeError(o) == ~o.ok /\ o.at = 0 /\ o.val.type = "RuntimeError"

\* C1: when the top-level value does not have the type the extractor
\* expects, the exhausted outcome sequence is exactly one document-shape
\* error, for every extractor.
C1_WrongEnvelopeYieldsOneError ==
    (EnvelopeMismatch /\ pc \in {"done", "raised"}) =>
        /\ pc = "done"
        /\ Len(out) = 1
        /\ IsDocShapeError(out[1])

\* C2: no extractor raises an exception to the consumer of its outcomes.
C2_NoExceptionLeavesExtractor == pc # "raised" /\ raised = JNull

\* v[path[1]][path[2]]... exists, every step being a key of an object
RECURSIVE HasPath(_, _)
HasPath(v, path) ==
    \/ path = <<>>
    \/ /\ IsDict(v)
       /\ Head(path) \in DOMAIN v.o
       /\ HasPath(v.o[Head(path)], Tail(path))

RECURSIVE At(_, _)
At(v, path) == IF path = <<>> THEN v ELSE At(v.o[Head(path)], Tail(path))

IsIsoAt(v, path) ==
    HasPath(v, path) /\ At(v, path).t = "str" /\ At(v, path).s \in DOMAIN IsoTable

\* key is absent from v, or holds a list
ListIfPresent(v, key) == key \in DOMAIN v.o => IsList(v.o[key])

\* what a record needs to become an event, stated from the shape of the
\* records and not from the builders
WellFormedActivity(r) ==
    /\ IsDict(r)
    /\ ListIfPresent(r, "subtitles")
    /\ LET inner == IF "snippet" \in DOMAIN r.o THEN r.o["snippet"] ELSE r
       IN  /\ IsDict(inner)
           /\ IF "snippet" \in DOMAIN r.o THEN IsIsoAt(inner, <<"publishedAt">>)
              ELSE "header" \in DOMAIN r.o /\ IsIsoAt(r, <<"time">>)
           /\ "title" \in DOMAIN inner.o
           /\ ListIfPresent(inner, "details")
           /\ ListIfPresent(inner, "products")
           /\ "locationInfos" \in DOMAIN inner.o =>
                 /\ IsList(inner.o["locationInfos"])
                 /\ \A j \in 1..Len(inner.o["locationInfos"].l) :
                        IsDict(inner.o["locationInfos"].l[j])

WellFormedLike(r) ==
    /\ HasPath(r, <<"snippet", "title">>)
    /\ HasPath(r, <<"snippet", "description">>)
    /\ HasPath(r, <<"contentDetails", "videoId">>)
    /\ IsIsoAt(r, <<"snippet", "publishedAt">>)

WellFormedAppInstall(r) ==
    /\ HasPath(r, <<"install", "doc", "title">>)
    /\ HasPath(r, <<"install", "deviceAttribute">>)
    /\ IsDict(At(r, <<"install", "deviceAttribute">>))
    /\ IsIsoAt(r, <<"install", "firstInstallationTime">>)

WellFormedChrome(r) ==
    /\ HasPath(r, <<"time_usec">>) /\ r.o["time_usec"].t = "num"
    /\ HasPath(r, <<"title">>)
    /\ HasPath(r, <<"url">>)

WellFormedRecord(k, r) ==
    CASE k = "activity" -> WellFormedActivity(r)
      [] k = "likes" -> WellFormedLike(r)
      [] k = "app_installs" -> WellFormedAppInstall(r)
      [] k = "chrome" -> WellFormedChrome(r)
      [] OTHER -> FALSE

EventName(k) ==
    CASE k = "activity" -> "Activity"
      [] k = "likes" -> "LikedYoutubeVideo"
      [] k = "app_installs" -> "PlayStoreAppInstall"
      [] k = "chrome" -> "ChromeHistory"
      [] OTHER -> ""

OnePerRecordKinds == {"activity", "likes", "app_installs", "chrome"}

\* C3: for the activity, likes, app-installs and browser-history
\* extractors on a well-formed envelope, the j-th outcome is the outcome of
\* the j-th record (an event when the record is well formed, an error
\* otherwise), no position is skipped, and the exhausted sequence has as
\* many outcomes as the document has records.
C3_OneOutcomePerRecordInOrder ==
    (kind \in OnePerRecordKinds /\ WellFormedEnvelope) =>
        /\ pc # "raised"
        /\ pc = "loop" => Len(out) = i - 1
        /\ pc = "done" => Len(out) = Len(RecordsOfDoc)
        /\ \A j \in 1..Len(out) :
              /\ out[j].at = j /\ out[j].src = j
              /\ out[j].ok <=> WellFormedRecord(kind, RecordsOfDoc[j])
              /\ out[j].ok => out[j].val.ev = EventName(kind)

\* C3 witness: an exhausted sequence with an error (for a record that is
\* not an object) followed by an event
C3_Witness ==
    /\ kind \in OnePerRecordKinds /\ WellFormedEnvelope
    /\ pc = "done" /\ Len(out) = 2
    /\ ~IsDict(RecordsOfDoc[1])
    /\ ~out[1].ok /\ out[2].ok

\* C4: in the coarse location-history extractor every exception caused by
\* one entry of `locations` is caught and yielded as that entry's outcome,
\* and the later entries are still processed.
C4_EveryLocationEntryYields ==
    (kind = "location" /\ WellFormedEnvelope) =>
        /\ pc # "raised"
        /\ pc = "done" => \A j \in 1..Len(RecordsOfDoc) : \E k \in 1..Len(out) : out[k].at = j

\* the timeline objects the loop has been through
Processed == IF pc \in {"loop", "done"} THEN 1..(i - 1) ELSE {}

\* a timeline object with neither branch key
NeitherBranch(tobj) ==
    IsDict(tobj) /\ "placeVisit" \notin DOMAIN tobj.o /\ "activitySegment" \notin DOMAIN tobj.o

NamesKeysOf(o, tobj) ==
    /\ ~o.ok
    /\ o.val.type = "RuntimeError"
    /\ o.val.what = "Unknown timeline object with keys"
    /\ o.val.arg = DOMAIN tobj.o

\* C5: in the semantic extractor a timeline object with neither a
\* placeVisit nor an activitySegment key yields an error that names the
\* keys of that object.
C5_UnknownObjectYieldsErrorNamingKeys ==
    kind = "semantic" =>
        \A j \in Processed :
            NeitherBranch(items[j]) =>
                \E k \in 1..Len(out) : out[k].at = j /\ NamesKeysOf(out[k], items[j])

\* C5 witness: an object with two unknown keys has been processed and its
\* error names both
C5_Witness ==
    /\ kind = "semantic"
    /\ \E j \in Processed :
          /\ NeitherBranch(items[j])
          /\ Cardinality(DOMAIN items[j].o) = 2
          /\ \E k \in 1..Len(out) : out[k].at = j /\ NamesKeysOf(out[k], items[j])

\* a place visit with location and duration whose location lacks one of
\* placeId, latitudeE7, longitudeE7
DiscardedVisit(tobj) ==
    /\ HasPath(tobj, <<"placeVisit", "location">>)
    /\ HasPath(tobj, <<"placeVisit", "duration">>)
    /\ IsDict(At(tobj, <<"placeVisit", "location">>))
    /\ \E key \in {"placeId", "latitudeE7", "longitudeE7"} :
          key \notin DOMAIN At(tobj, <<"placeVisit", "location">>).o

\* C6: a place visit with location and duration whose location lacks
\* placeId, latitudeE7 or longitudeE7 contributes no outcome at all, the
\* extractor goes on, and every other timeline object still yields.
C6_IncompleteLocationSilentlyDiscarded ==
    (kind = "semantic" /\ WellFormedEnvelope) =>
        /\ pc # "raised"
        /\ \A j \in Processed :
              IF DiscardedVisit(items[j])
              THEN \A k \in 1..Len(out) : out[k].at # j /\ out[k].src # j
              ELSE \E k \in 1..Len(out) : out[k].at = j

\* C6 witness: an exhausted document whose first object was discarded and
\* whose second object gave an event
C6_Witness ==
    /\ kind = "semantic" /\ pc = "done" /\ Len(items) = 2
    /\ DiscardedVisit(items[1])
    /\ Len(out) = 1 /\ out[1].ok /\ out[1].at = 2

MissingKeyMessage(k) ==
    CASE k = "location" -> "Locations: no 'locations' key"
      [] k = "semantic" -> "Locations: no 'timelineObjects' key"
      [] k = "chrome" -> "Chrome/BrowserHistory: no 'Browser History' key"
      [] OTHER -> ""

LacksEnvelopeKey ==
    kind \in ObjectKinds /\ IsDict(json_data) /\ EnvelopeKey(kind) \notin DOMAIN json_data.o

\* C7: a top-level object without the extractor's envelope key yields
\* exactly one document-level error, first, then no record outcome (the
\* empty fallback list is iterated), and the extractor finishes normally.
C7_MissingEnvelopeKeyOneError ==
    LacksEnvelopeKey =>
        /\ pc # "raised"
        /\ pc # "start" =>
              /\ items = <<>>
              /\ Len(out) = 1
              /\ IsDocShapeError(out[1])
              /\ out[1].val.what = MissingKeyMessage(kind)

\* C7 witness: such a document, exhausted
C7_Witness == LacksEnvelopeKey /\ pc = "done" /\ Len(out) = 1

\* the instant t is decoded from d[keyMs] when d has that key and from
\* d[key] otherwise
FromMsElseIso(d, key, keyMs, t) ==
    IF keyMs \in DOMAIN d.o
    THEN parse_datetime_millis(d.o[keyMs]) = Ok(t)
    ELSE key \in DOMAIN d.o /\ parse_json_utc_date(d.o[key]) = Ok(t)

\* C8: the time of a coarse location record and the start and end times of
\* a place visit come from the millisecond field whenever the record has
\* it, whatever the ISO field holds, and from the ISO field only when the
\* millisecond field is absent.
C8_MillisecondFieldPreferred ==
    \A k \in 1..Len(out) :
        out[k].ok =>
            /\ out[k].val.ev = "Location" =>
                  FromMsElseIso(items[out[k].src], "timestamp", "timestampMs", out[k].val.dt)
            /\ out[k].val.ev = "PlaceVisit" =>
                  LET d == At(items[out[k].src], <<"placeVisit", "duration">>)
                  IN  /\ FromMsElseIso(d, "startTimestamp", "startTimestampMs",
                                       out[k].val.startTime)
                      /\ FromMsElseIso(d, "endTimestamp", "endTimestampMs",
                                       out[k].val.endTime)

\* d has both fields of key and they denote different instants
Disagree(d, key, keyMs) ==
    /\ key \in DOMAIN d.o /\ keyMs \in DOMAIN d.o
    /\ parse_json_utc_date(d.o[key]).ok /\ parse_datetime_millis(d.o[keyMs]).ok
    /\ parse_json_utc_date(d.o[key]) # parse_datetime_millis(d.o[keyMs])

\* C8 witness: a location event, or a place visit event, built from a
\* record whose two fields disagree, with the instant of the millisecond field
C8_Witness ==
    \/ \E k \in 1..Len(out) :
          /\ out[k].ok /\ out[k].val.ev = "Location"
          /\ Disagree(items[out[k].src], "timestamp", "timestampMs")
          /\ out[k].val.dt = 3000000
    \/ \E k \in 1..Len(out) :
          /\ out[k].ok /\ out[k].val.ev = "PlaceVisit"
          /\ Disagree(At(items[out[k].src], <<"placeVisit", "duration">>),
                      "startTimestamp", "startTimestampMs")
          /\ Disagree(At(items[out[k].src], <<"placeVisit", "duration">>),
                      "endTimestamp", "endTimestampMs")
          /\ out[k].val.startTime = 1500000 /\ out[k].val.endTime = 3000000

\* a timeline object dispatched to the activity-segment builder
IsSegmentObject(tobj) ==
    /\ IsDict(tobj) /\ "placeVisit" \notin DOMAIN tobj.o
    /\ HasPath(tobj, <<"activitySegment">>) /\ IsDict(tobj.o["activitySegment"])

\* the object d with d[key] set to v
WithKey(d, key, v) ==
    JObj([x \in DOMAIN d.o \cup {key} |-> IF x = key THEN v ELSE d.o[x]])

HasEmpty(seg, key) == key \in DOMAIN seg.o /\ seg.o[key] = EmptyObj

\* the segment at position j, whose location key is {}, gives null
\* coordinates in every event built from it, and gives an event whenever
\* the same segment with a full location at key gives one
EmptyEndpointIsNull(j, key, latField, lngField) ==
    LET seg == items[j].o["activitySegment"]
    IN  HasEmpty(seg, key) =>
            /\ \A k \in 1..Len(out) :
                  (out[k].ok /\ out[k].src = j) =>
                      out[k].val[latField] = JNull /\ out[k].val[lngField] = JNull
            /\ _parse_activity_segment(WithKey(seg, key, StartLoc)).ok =>
                  \E k \in 1..Len(out) : out[k].ok /\ out[k].at = j /\ out[k].src = j

\* C9: an activity segment whose startLocation (endLocation) is the empty
\* object yields an event with startLat and startLng (endLat and endLng)
\* null, and the empty object is no cause of an error.
C9_EmptyEndpointGivesNullCoordinates ==
    kind = "semantic" =>
        \A j \in Processed :
            IsSegmentObject(items[j]) =>
                /\ EmptyEndpointIsNull(j, "startLocation", "startLat", "startLng")
                /\ EmptyEndpointIsNull(j, "endLocation", "endLat", "endLng")

\* C9 witness: an event built from a segment whose startLocation is {} and
\* whose endLocation is a full location
C9_Witness ==
    /\ kind = "semantic"
    /\ \E j \in Processed :
          /\ IsSegmentObject(items[j])
          /\ HasEmpty(items[j].o["activitySegment"], "startLocation")
          /\ ~HasEmpty(items[j].o["activitySegment"], "endLocation")
          /\ \E k \in 1..Len(out) :
                /\ out[k].ok /\ out[k].src = j
                /\ out[k].val.startLat = JNull /\ out[k].val.endLat # JNull

IsSegmentEvent(o) == o.ok /\ o.val.ev = "ActivitySegment"

SameTimesAndDistance(a, b) ==
    a.startTime = b.startTime /\ a.endTime = b.endTime /\ a.distance = b.distance

\* C10: two activity-segment events that agree on start time, end time and
\* distance have the same key, whatever their other fields are.
C10_SegmentKeyIgnoresOtherFields ==
    \A a, b \in 1..Len(out) :
        (IsSegmentEvent(out[a]) /\ IsSegmentEvent(out[b])
            /\ SameTimesAndDistance(out[a].val, out[b].val)) =>
                ActivitySegment_key(out[a].val) = ActivitySegment_key(out[b].val)

\* C10 witness: two segment events with equal times and distance that
\* differ in activity type, path, coordinates and confirmation status
C10_Witness ==
    \E a, b \in 1..Len(out) :
        /\ IsSegmentEvent(out[a]) /\ IsSegmentEvent(out[b])
        /\ SameTimesAndDistance(out[a].val, out[b].val)
        /\ out[a].val.activityType # out[b].val.activityType
        /\ out[a].val.waypointPath # out[b].val.waypointPath
        /\ out[a].val.simplifiedRawPath # out[b].val.simplifiedRawPath
        /\ out[a].val.startLat # out[b].val.startLat
        /\ out[a].val.activities # out[b].val.activities
        /\ out[a].val.editConfirmationStatus # out[b].val.editConfirmationStatus

\* the timestamp components of the key of event e
KeySeconds(e) ==
    CASE e.ev = "Activity" -> <<Activity_key(e)[3]>>
      [] e.ev = "LikedYoutubeVideo" -> <<LikedYoutubeVideo_key(e)>>
      [] e.ev = "PlayStoreAppInstall" -> <<PlayStoreAppInstall_key(e)>>
      [] e.ev = "Location" -> <<Location_key(e)[4]>>
      [] e.ev = "PlaceVisit" -> <<PlaceVisit_key(e)[3]>>
      [] e.ev = "ActivitySegment" -> <<ActivitySegment_key(e)[1], ActivitySegment_key(e)[2]>>
      [] e.ev = "ChromeHistory" -> <<ChromeHistory_key(e)[2]>>

\* the instants those components are computed from
KeyInstants(e) ==
    CASE e.ev = "Activity" -> <<e.time>>
      [] e.ev = "PlaceVisit" -> <<e.startTime>>
      [] e.ev = "ActivitySegment" -> <<e.startTime, e.endTime>>
      [] OTHER -> <<e.dt>>

\* the epoch second that contains the instant dt
SecondContaining(dt) == dt \div 1000000

\* C11: the timestamp component of every event key is the epoch second
\* that contains the event's timestamp: two timestamps give the same
\* component exactly when they lie in the same epoch second, also before
\* 1970.
C11_KeySecondIsContainingEpochSecond ==
    \A a, b \in 1..Len(out) :
        (out[a].ok /\ out[b].ok) =>
            \A m \in 1..Len(KeySeconds(out[a].val)), n \in 1..Len(KeySeconds(out[b].val)) :
                (KeySeconds(out[a].val)[m] = KeySeconds(out[b].val)[n])
                    <=> (SecondContaining(KeyInstants(out[a].val)[m])
                            = SecondContaining(KeyInstants(out[b].val)[n]))

\* the outcomes yielded while the loop was at position j, without the
\* positions they carry
OutcomesAt(j) ==
    LET at == SelectSeq(out, LAMBDA o : o.at = j)
    IN  [k \in 1..Len(at) |-> [ok |-> at[k].ok, val |-> at[k].val]]

\* the outcomes each timeline object of objs yields when the dispatch loop
\* runs over objs, starting with `result` as res
RECURSIVE DispatchAll(_, _, _)
DispatchAll(objs, res, at) ==
    IF objs = <<>> THEN <<>>
    ELSE LET d == Dispatch(Head(objs), res, at)
         IN  <<[k \in 1..Len(d.yields) |-> [ok |-> d.yields[k].ok, val |-> d.yields[k].val]]>>
                 \o DispatchAll(Tail(objs), d.result, at + 1)

\* objs without its k-th element
Without(objs, k) == SubSeq(objs, 1, k - 1) \o SubSeq(objs, k + 1, Len(objs))

\* building the timeline object raises: it is not an object, or the
\* sub-builder its branch key selects raises
BuildRaises(tobj) ==
    \/ ~IsDict(tobj)
    \/ /\ IsDict(tobj) /\ "placeVisit" \in DOMAIN tobj.o
       /\ ~_parse_place_visit(tobj.o["placeVisit"]).ok
    \/ /\ IsDict(tobj) /\ "placeVisit" \notin DOMAIN tobj.o
       /\ "activitySegment" \in DOMAIN tobj.o
       /\ ~_parse_activity_segment(tobj.o["activitySegment"]).ok

\* C12: in the semantic extractor an exception raised while building one
\* timeline object becomes one error outcome for that object only, and
\* every later timeline object yields what it would yield if the failing
\* object were not in the document.
C12_FailingObjectDoesNotAffectLaterObjects ==
    kind = "semantic" =>
        \A k \in Processed :
            BuildRaises(items[k]) =>
                /\ Len(OutcomesAt(k)) = 1 /\ ~OutcomesAt(k)[1].ok
                /\ \A j \in Processed :
                      j > k => OutcomesAt(j) = DispatchAll(Without(items, k), Unbound, 1)[j - 1]

\* C12 witness: the first object failed in a sub-builder and the second
\* object, processed after it, gave an event
C12_Witness ==
    /\ kind = "semantic" /\ pc = "done" /\ Len(items) = 2
    /\ IsDict(items[1]) /\ BuildRaises(items[1])
    /\ ~OutcomesAt(1)[1].ok
    /\ Len(OutcomesAt(2)) = 1 /\ OutcomesAt(2)[1].ok

\* the activity segment seg has both required keys and no location at key
LacksEndpoint(seg, key) ==
    /\ "duration" \in DOMAIN seg.o /\ "activities" \in DOMAIN seg.o
    /\ key \notin DOMAIN seg.o

\* the segment at position j, which has no location at key, yields an
\* event whose coordinates of that end are null, whenever the same segment
\* with {} at key yields one
MissingEndpointIsNull(j, key, latField, lngField) ==
    LET seg == items[j].o["activitySegment"]
    IN  (LacksEndpoint(seg, key) /\ _parse_activity_segment(WithKey(seg, key, EmptyObj)).ok) =>
            \E k \in 1..Len(out) :
                /\ out[k].ok /\ out[k].at = j /\ out[k].src = j
                /\ out[k].val.ev = "ActivitySegment"
                /\ out[k].val[latField] = JNull /\ out[k].val[lngField] = JNull

\* C13: an activity segment with duration and activities but without a
\* startLocation key (without an endLocation key) still yields an
\* ActivitySegment event, with startLat and startLng (endLat and endLng)
\* null, and no error.
C13_MissingEndpointStillYieldsEvent ==
    kind = "semantic" =>
        \A j \in Processed :
            IsSegmentObject(items[j]) =>
                /\ MissingEndpointIsNull(j, "startLocation", "startLat", "startLng")
                /\ MissingEndpointIsNull(j, "endLocation", "endLat", "endLng")

\* a timeline object dispatched to the place-visit builder
IsVisitObject(tobj) ==
    IsDict(tobj) /\ HasPath(tobj, <<"placeVisit">>) /\ IsDict(tobj.o["placeVisit"])

\* exactly one of the two center keys is in the place visit
OneCenterKey(pv) == ("centerLatE7" \in DOMAIN pv.o) # ("centerLngE7" \in DOMAIN pv.o)

\* C14: a place visit's center coordinates are decoded only when both
\* centerLatE7 and centerLngE7 are present: an event built from a place
\* visit with exactly one of the two keys has centerLat and centerLng null.
C14_CenterDecodedOnlyWhenBothPresent ==
    \A k \in 1..Len(out) :
        (out[k].ok /\ out[k].val.ev = "PlaceVisit"
            /\ OneCenterKey(items[out[k].src].o["placeVisit"])) =>
                out[k].val.centerLat = JNull /\ out[k].val.centerLng = JNull

\* the record a timeline object hands to its sub-builder
SubRecord(tobj) ==
    IF "placeVisit" \in DOMAIN tobj.o THEN tobj.o["placeVisit"] ELSE tobj.o["activitySegment"]

\* the timeline object reaches the try block of its sub-builder: it has a
\* branch key whose record has the required keys
ReachesBody(tobj) ==
    /\ IsVisitObject(tobj) \/ IsSegmentObject(tobj)
    /\ _check_required_keys(SubRecord(tobj),
            IF "placeVisit" \in DOMAIN tobj.o THEN _sem_required_keys
            ELSE _sem_activity_segment_required_keys) = Ok(JNull)

\* what the try block of the sub-builder gives, before its except clause
BodyResult(tobj) ==
    IF "placeVisit" \in DOMAIN tobj.o THEN PlaceVisitBody(SubRecord(tobj))
    ELSE ActivitySegmentBody(SubRecord(tobj))

\* o is a descriptive error that names the key of the KeyError e and the
\* record rec
NamesKeyAndRecord(o, e, rec) ==
    /\ ~o.ok
    /\ o.val.type = "RuntimeError"
    /\ o.val.what \in {"PlaceVisit: no key", "ActivitySegment: no key"}
    /\ o.val.arg = e.arg
    /\ o.val.rec = rec

\* C15: in the PlaceVisit and ActivitySegment sub-builders a KeyError
\* raised during construction reaches the outcomes as a descriptive error
\* naming the missing key and the record, never as a bare KeyError; an
\* exception of any other kind reaches the outcomes unchanged.
C15_KeyErrorRewrappedOthersUnchanged ==
    kind = "semantic" =>
        \A j \in Processed :
            (ReachesBody(items[j]) /\ ~BodyResult(items[j]).ok) =>
                LET e == BodyResult(items[j]).exc
                IN  /\ Len(OutcomesAt(j)) = 1
                    /\ IF e.type = "KeyError"
                       THEN NamesKeyAndRecord(OutcomesAt(j)[1], e, SubRecord(items[j]))
                       ELSE OutcomesAt(j)[1] = [ok |-> FALSE, val |-> e]

\* C15 witness: a segment whose waypointPath lacks `source` gave a
\* descriptive error naming `source`, and a segment with an activity that
\* is not an object gave its TypeError unchanged
C15_Witness ==
    /\ kind = "semantic" /\ pc = "done" /\ Len(items) = 2
    /\ ReachesBody(items[1]) /\ ReachesBody(items[2])
    /\ BodyResult(items[1]) = Raise(KeyError("source"))
    /\ OutcomesAt(1)[1].val.type = "RuntimeError" /\ OutcomesAt(1)[1].val.arg = {"source"}
    /\ ~BodyResult(items[2]).ok /\ BodyResult(items[2]).exc.type = "TypeError"
    /\ OutcomesAt(2)[1].val.type = "TypeError"

\* the keys of required_keys that the record rec lacks
MissingOf(rec, required_keys) ==
    {required_keys[n] : n \in 1..Len(required_keys)} \ DOMAIN rec.o

\* the timeline object at position j yields one outcome, an error naming
\* a key of required_keys that its record lacks, and no event
YieldsMissingKeyError(j, required_keys) ==
    /\ Len(OutcomesAt(j)) = 1
    /\ ~OutcomesAt(j)[1].ok
    /\ OutcomesAt(j)[1].val.type = "RuntimeError"
    /\ OutcomesAt(j)[1].val.arg # {}
    /\ OutcomesAt(j)[1].val.arg \subseteq MissingOf(SubRecord(items[j]), required_keys)
    /\ \A k \in 1..Len(out) : out[k].ok => out[k].src # j

\* the location of the place visit pv lacks one of the three location keys
IncompleteLocation(pv) ==
    /\ "location" \in DOMAIN pv.o /\ IsDict(pv.o["location"])
    /\ MissingOf(pv.o["location"], _sem_required_location_keys) # {}

\* C16: the required-key check comes before the silent discard: a place
\* visit lacking location or duration always yields an error naming the
\* missing key, also when its location lacks placeId, latitudeE7 or
\* longitudeE7; an activity segment lacking duration or activities always
\* yields an error and never an event.
C16_RequiredKeyCheckBeforeDiscard ==
    kind = "semantic" =>
        \A j \in Processed :
            /\ (IsVisitObject(items[j])
                   /\ MissingOf(SubRecord(items[j]), _sem_required_keys) # {}) =>
                      YieldsMissingKeyError(j, _sem_required_keys)
            /\ (IsSegmentObject(items[j])
                   /\ MissingOf(SubRecord(items[j]), _sem_activity_segment_required_keys) # {}) =>
                      YieldsMissingKeyError(j, _sem_activity_segment_required_keys)

\* C16 witness: a place visit without duration whose location lacks
\* placeId gave an error naming duration, and a segment without activities
\* gave an error naming activities
C16_Witness ==
    /\ kind = "semantic" /\ pc = "done" /\ Len(items) = 2
    /\ IsVisitObject(items[1]) /\ IncompleteLocation(SubRecord(items[1]))
    /\ "duration" \notin DOMAIN SubRecord(items[1]).o
    /\ OutcomesAt(1)[1].val.arg = {"duration"}
    /\ IsSegmentObject(items[2])
    /\ OutcomesAt(2)[1].val.arg = {"activities"}

\* the entries of the points list of the segment seg, none when it has no
\* simplifiedRawPath or that object has no points
RawPoints(seg) ==
    IF "simplifiedRawPath" \in DOMAIN seg.o /\ "points" \in DOMAIN seg.o["simplifiedRawPath"].o
    THEN seg.o["simplifiedRawPath"].o["points"].l
    ELSE <<>>

\* C17: in an ActivitySegment event waypointPath is non-null exactly when
\* the segment has a waypointPath key, and simplifiedRawPath is always a
\* path object: with no point when the segment has no simplifiedRawPath
\* key, otherwise with one point per entry of its points list, in order.
C17_PathsOfBuiltSegment ==
    \A k \in 1..Len(out) :
        IsSegmentEvent(out[k]) =>
            LET seg == SubRecord(items[out[k].src])
                path == out[k].val.simplifiedRawPath
            IN  /\ (out[k].val.waypointPath # JNull) <=> ("waypointPath" \in DOMAIN seg.o)
                /\ DOMAIN path = {"points"}
                /\ Len(path.points) = Len(RawPoints(seg))
                /\ \A n \in 1..Len(RawPoints(seg)) :
                      Ok(path.points[n]) = RawPathPoint_from_dict(RawPoints(seg)[n])

\* C17 witness: an event of a segment with a waypointPath and two raw
\* points, and an event of a segment with neither key
C17_Witness ==
    \E a, b \in 1..Len(out) :
        /\ IsSegmentEvent(out[a]) /\ IsSegmentEvent(out[b])
        /\ "waypointPath" \in DOMAIN SubRecord(items[out[a].src]).o
        /\ out[a].val.waypointPath # JNull
        /\ Len(out[a].val.simplifiedRawPath.points) = 2
        /\ out[a].val.simplifiedRawPath.points[1] # out[a].val.simplifiedRawPath.points[2]
        /\ DOMAIN SubRecord(items[out[b].src]).o \cap {"waypointPath", "simplifiedRawPath"} = {}
        /\ out[b].val.waypointPath = JNull
        /\ out[b].val.simplifiedRawPath.points = <<>>

\* the segment at position j, whose duration decodes under the
\* prefer-milliseconds rule, yields an event with those start and end times
SegmentTimesPreferMs(j) ==
    LET seg == SubRecord(items[j])
        d == seg.o["duration"]
        start == _parse_timestamp_key(d, "startTimestamp", "startTimestampMs")
        end == _parse_timestamp_key(d, "endTimestamp", "endTimestampMs")
    IN  (start.ok /\ end.ok /\ _parse_activity_segment(WithKey(seg, "duration", IsoDuration)).ok) =>
            \E k \in 1..Len(out) :
                /\ IsSegmentEvent(out[k]) /\ out[k].at = j /\ out[k].src = j
                /\ out[k].val.startTime = start.v
                /\ out[k].val.endTime = end.v

\* C18: the prefer-milliseconds rule holds for the duration of an activity
\* segment: the start (end) time is decoded from startTimestampMs
\* (endTimestampMs) when the duration has it, and a segment whose duration
\* has only the millisecond fields still yields an ActivitySegment event.
C18_SegmentDurationPrefersMilliseconds ==
    kind = "semantic" =>
        \A j \in Processed :
            (IsSegmentObject(items[j]) /\ HasPath(items[j], <<"activitySegment", "duration">>)
                /\ IsDict(At(items[j], <<"activitySegment", "duration">>))) =>
                    SegmentTimesPreferMs(j)

\* the activity record r is of the legacy shape
IsLegacy(r) == "snippet" \in DOMAIN r.o

\* the keys an activity record of each shape cannot do without, and the
\* object they are read from
RequiredActivityKeys(r) ==
    IF IsLegacy(r) THEN {"title", "publishedAt"} ELSE {"header", "title", "time"}

FieldsOf(r) == IF IsLegacy(r) THEN r.o["snippet"] ELSE r

\* the event e has the header, time and fields that the shape of r says
ReadFromShape(e, r) ==
    LET inner == FieldsOf(r)
    IN  /\ e.header = (IF IsLegacy(r) THEN JStr("YouTube") ELSE r.o["header"])
        /\ Ok(e.time) = parse_json_utc_date(IF IsLegacy(r) THEN inner.o["publishedAt"]
                                            ELSE r.o["time"])
        /\ e.title = inner.o["title"]
        /\ e.description = Get(inner, "description").v
        /\ e.titleUrl = convert_to_https_opt(Get(inner, "titleUrl").v)
        /\ Ok(e.details) = ActivityDetails(inner)
        /\ Ok(e.locationInfos) = ActivityLocationInfos(inner)
        /\ e.products = GetDefault(inner, "products", EmptyList).v

\* C19: an activity record is of the legacy shape exactly when it has a
\* snippet key: its event has the header "YouTube", whatever header the
\* record has, and title, description, URL, details, location hints,
\* products and time (publishedAt) from inside snippet; otherwise the
\* header is the record's and the time is read from `time`; a record
\* lacking a required key of its shape yields an error.
C19_LegacyShapeBySnippetKey ==
    kind = "activity" =>
        \A k \in 1..Len(out) :
            (out[k].at > 0 /\ IsDict(items[out[k].at])) =>
                LET r == items[out[k].at]
                IN  /\ out[k].ok => ReadFromShape(out[k].val, r)
                    /\ (IsDict(FieldsOf(r)) /\ ~(RequiredActivityKeys(r) \subseteq DOMAIN FieldsOf(r).o))
                           => ~out[k].ok

\* C19 witness: the event of a legacy record that has a header and a title
\* of its own, and the error of a legacy record without publishedAt
C19_Witness ==
    /\ kind = "activity" /\ pc = "done" /\ Len(items) = 2 /\ Len(out) = 2
    /\ IsDict(items[1]) /\ IsDict(items[2])
    /\ IsLegacy(items[1]) /\ "header" \in DOMAIN items[1].o
    /\ out[1].ok /\ out[1].val.header = JStr("YouTube")
    /\ out[1].val.title = JStr("Watched") /\ items[1].o["title"] = JStr("Outer")
    /\ out[1].val.time = 1000000
    /\ IsLegacy(items[2]) /\ "publishedAt" \notin DOMAIN FieldsOf(items[2]).o
    /\ ~out[2].ok

\* an entry of a subtitle or detail list that is kept: an object with a name
Named(x) == IsDict(x) /\ "name" \in DOMAIN x.o

\* the entries of the list at key of d that are kept, in their order; none
\* when d has no such key
KeptEntries(d, key) ==
    IF key \in DOMAIN d.o THEN SelectSeq(d.o[key].l, Named) ELSE <<>>

\* d with the list at key, when it has one, reduced to its kept entries
WithKept(d, key) ==
    IF key \in DOMAIN d.o THEN WithKey(d, key, JList(KeptEntries(d, key))) ELSE d

\* the activity record r without the subtitle and detail entries that are
\* to be dropped
WithoutDropped(r) ==
    IF IsLegacy(r)
    THEN WithKey(WithKept(r, "subtitles"), "snippet", WithKept(r.o["snippet"], "details"))
    ELSE WithKept(WithKept(r, "subtitles"), "details")

\* the subtitle and detail lists of r are lists, and some entry is dropped
HasDroppedEntries(r) ==
    /\ IsDict(FieldsOf(r))
    /\ ListIfPresent(r, "subtitles") /\ ListIfPresent(FieldsOf(r), "details")
    /\ WithoutDropped(r) # r

\* C20: subtitle entries and detail entries that are not objects or lack
\* `name` are dropped without making the record an error: the record
\* yields what it yields without those entries, and the subtitles and
\* details of its event are the remaining entries in their original order.
C20_UnnamedEntriesDropped ==
    kind = "activity" =>
        \A k \in 1..Len(out) :
            (out[k].at > 0 /\ IsDict(items[out[k].at]) /\ HasDroppedEntries(items[out[k].at])) =>
                LET r == items[out[k].at]
                    subs == KeptEntries(r, "subtitles")
                    dets == KeptEntries(FieldsOf(r), "details")
                IN  /\ out[k].ok = BuildActivity(WithoutDropped(r)).ok
                    /\ out[k].ok =>
                          /\ out[k].val.subtitles =
                                [n \in 1..Len(subs) |->
                                    [name |-> subs[n].o["name"], url |-> Get(subs[n], "url").v]]
                          /\ out[k].val.details = [n \in 1..Len(dets) |-> dets[n].o["name"]]

\* C20 witness: an event with two subtitles and two details, from a record
\* with four entries in each list
C20_Witness ==
    /\ kind = "activity"
    /\ \E k \in 1..Len(out) :
          /\ out[k].ok /\ out[k].at > 0
          /\ Len(items[out[k].at].o["subtitles"].l) = 4
          /\ Len(items[out[k].at].o["details"].l) = 4
          /\ Len(out[k].val.subtitles) = 2 /\ Len(out[k].val.details) = 2
          /\ out[k].val.subtitles[1].name # out[k].val.subtitles[2].name
          /\ out[k].val.details = <<JStr("d"), JStr("e")>>

\* the timeline objects gone through so far that carry a branch key
BranchObjects ==
    {j \in Processed : IsDict(items[j])
                          /\ DOMAIN items[j].o \cap {"placeVisit", "activitySegment"} # {}}

\* the positions of out that hold an event
EventPositions == {k \in 1..Len(out) : out[k].ok}

\* the positions of out filled while the loop ran
LoopPositions == {k \in 1..Len(out) : out[k].at > 0}

\* C21: in the semantic extractor every timeline object contributes at
\* most one outcome, and an event built from one timeline object is never
\* yielded again while a later object is processed: the outcomes of the
\* loop are at most as many as the timeline objects gone through, and the
\* events at most as many as the objects with a placeVisit or an
\* activitySegment key.
C21_AtMostOneOutcomePerTimelineObject ==
    kind = "semantic" =>
        /\ \A j \in Processed : Len(OutcomesAt(j)) <= 1
        /\ \A k \in EventPositions : out[k].src = out[k].at
        /\ Cardinality(LoopPositions) <= Cardinality(Processed)
        /\ Cardinality(EventPositions) <= Cardinality(BranchObjects)

\* the timeline object has both branch keys
HasBothKeys(tobj) ==
    IsDict(tobj) /\ {"placeVisit", "activitySegment"} \subseteq DOMAIN tobj.o

\* the object d without key
WithoutKey(d, key) == JObj([x \in DOMAIN d.o \ {key} |-> d.o[x]])

\* objs with its j-th element replaced by v
Replaced(objs, j, v) == [n \in 1..Len(objs) |-> IF n = j THEN v ELSE objs[n]]

\* C22: a timeline object with both a placeVisit and an activitySegment key
\* is processed as a place visit only: no ActivitySegment event is built
\* from it, and it yields exactly what the same object without its
\* activitySegment key yields in its place (event, error or nothing).
C22_BothKeysProcessedAsPlaceVisit ==
    kind = "semantic" =>
        \A j \in Processed :
            HasBothKeys(items[j]) =>
                /\ \A k \in 1..Len(out) : out[k].src = j => ~IsSegmentEvent(out[k])
                /\ OutcomesAt(j) =
                      DispatchAll(Replaced(items, j, WithoutKey(items[j], "activitySegment")),
                                  Unbound, 1)[j]

\* C22 witness: an exhausted document whose two objects have both keys:
\* the first gave a PlaceVisit event, the second, whose visit has an empty
\* location, gave nothing
C22_Witness ==
    /\ kind = "semantic" /\ pc = "done" /\ Len(items) = 2
    /\ HasBothKeys(items[1]) /\ HasBothKeys(items[2])
    /\ Len(OutcomesAt(1)) = 1 /\ OutcomesAt(1)[1].ok /\ OutcomesAt(1)[1].val.ev = "PlaceVisit"
    /\ _parse_activity_segment(items[1].o["activitySegment"]).ok
    /\ OutcomesAt(2) = <<>>

====
